---- MODULE Spec2Model ----
(***************************************************************************)
(* Photo-table application (gsvhr/photo-to-word): the image list of        *)
(* ImageProcessor, the Tk main thread's handlers of PhotoTableApp and      *)
(* ThumbnailGrid, the background worker _generate_thread and               *)
(* WordGenerator.save_to_file / generate run by it.                        *)
(*                                                                         *)
(* Granularity.  A handler of the Tk main thread is one action.  The       *)
(* worker thread is cut at every access to state it shares with the main   *)
(* thread (the image lists, cancel_requested, generation_cancelled, the    *)
(* Tk event queue) and at every library call that may raise.               *)
(* root.after(0, f, ...) called by the worker appends f to after_queue;    *)
(* the main loop runs the queued callbacks in order (ProcessAfter).        *)
(*                                                                         *)
(* Conventions.  Angles are degrees.  A rendered image (thumbnail or       *)
(* picture) records in `cw` how far it is turned CLOCKWISE from the file   *)
(* on disk.  Lengths are millimetres.  A file path is a number; its        *)
(* suffix and stem are given by Suffix and Stem.                           *)
(***************************************************************************)
EXTENDS Integers, Sequences, FiniteSets, TLC

(* ------------------------------ bounds -------------------------------- *)
\* File paths the user can pick in the load dialog: 1..NumPaths.
NumPaths == 3
\* Longest image list built in SpecEdit and started from in SpecRuns.
MaxImages == 2
\* Files picked in one load dialog.
MaxBatch == 2
\* Worker threads started in one behaviour.
MaxRuns == 2
\* Longest image list SpecGen starts from.
GenImages == 5
\* Changes the user makes to the image list in one behaviour of SpecEdit.
MaxEdits == 4
\* Setter calls made in one behaviour of SpecConfig.
MaxSaves == 3
\* Calls made on the ImageProcessor object in one behaviour of SpecLists.
MaxCalls == 3
\* Indices passed to remove_images in one call.
MaxIndices == 2
\* directories and window geometries the settings are set to (besides the
\* home directory and the empty geometry, both 0)
NumDirs == 2
NumGeometries == 1
\* a table width (mm) and a JPEG quality that are not the defaults
OtherWidthMm == 100
OtherQuality == 60

(* ------------------------- program constants -------------------------- *)
cols == 2
MaxStemLen == 35
KeptStemLen == 32
ImageWidthPortrait == 400
MaxTableWidthMm == 500
DefaultQuality == 85
DefaultTableWidthMm == 160
DefaultTableWidthLandscapeMm == 250
QuarterTurn == 90
FullTurn == 360

supported_formats ==
    {".jpg", ".jpeg", ".png", ".bmp", ".gif", ".tiff", ".webp", ".avif"}

Paths == 1..NumPaths
Threads == 1..MaxRuns

(* ------------------------------ files --------------------------------- *)
\* Path(file_path).suffix of file p: every third file is no image file, the
\* others carry an image suffix, in upper case for one of them.
Suffix(p) ==
    CASE p % 3 = 0 -> ".txt"
      [] p % 3 = 1 -> ".jpg"
      [] OTHER     -> ".PNG"

\* str.lower on the suffixes that occur.
Lower(s) ==
    CASE s = ".PNG" -> ".png"
      [] s = ".JPG" -> ".jpg"
      [] OTHER      -> s

\* Path(img_path).stem as a sequence of character codes: files with an even
\* number have a stem longer than 35 characters; file 4 (and every 11th
\* after it) has a stem made of a control character.
StemLen(p) == IF p % 2 = 0 THEN MaxStemLen + 1 ELSE 1 + (p % 3)
StemChar(p) == IF p % 11 = 4 THEN 1 ELSE 97 + (p % 26)
Stem(p) == [k \in 1..StemLen(p) |-> StemChar(p)]
Dot == 46

\* lxml (under python-docx) refuses text holding control characters.
XmlCompatible(text) == \A k \in 1..Len(text) : text[k] >= 32

\* Mutation: nothing is ever found in a list.
NeverInSeq(x, s) == FALSE
\* x in s
InSeq(x, s) == \E k \in 1..Len(s) : s[k] = x
SeqToSet(s) == {s[k] : k \in 1..Len(s)}

(* --------------------------- AppConfig -------------------------------- *)
\* Mutation: _is_supported compares the suffix as it is written.
IsSupportedAsWritten(file_path) == Suffix(file_path) \in supported_formats
\* _is_supported
IsSupported(file_path) == Lower(Suffix(file_path)) \in supported_formats

get_image_width(orientation) == ImageWidthPortrait

get_rows_per_page(orientation) == IF orientation = "landscape" THEN 2 ELSE 4

\* Mutation: the caption is built with the image's 0-based index.
CaptionNumberZeroBased(i) == i
\* The number handed to get_caption_text for the image at 0-based index i.
CaptionNumber(i) == i + 1

\* get_caption_text: the template "Рис. {number}. {filename}" filled in, the
\* file name cut to 32 characters and "..." when longer than 35.
get_caption_text(number, filename) ==
    [number   |-> number,
     filename |-> IF Len(filename) > MaxStemLen
                  THEN SubSeq(filename, 1, KeptStemLen) \o <<Dot, Dot, Dot>>
                  ELSE filename]

\* The keys of default_settings in load_settings.
SettingKeys ==
    {"last_path", "window_geometry", "table_width_portrait",
     "table_width_landscape", "jpeg_quality", "orientation"}

\* default_settings of load_settings.  A directory is a number, 0 the home
\* directory; a window geometry is a number, 0 the empty dict.
default_settings ==
    [last_path             |-> 0,
     window_geometry       |-> 0,
     table_width_portrait  |-> DefaultTableWidthMm,
     table_width_landscape |-> DefaultTableWidthLandscapeMm,
     jpeg_quality          |-> DefaultQuality,
     orientation           |-> "portrait"]

\* The settings file: absent, or holding text json.load refuses (valid =
\* FALSE), or holding a JSON object, whose members are data.
NoSettingsFile == [exists |-> FALSE, valid |-> FALSE, data |-> <<>>]

\* Mutation: load_settings takes every member of the file.
load_settings_all_members(file) ==
    IF file.exists /\ file.valid
    THEN [key \in SettingKeys \cup DOMAIN file.data |->
             IF key \in DOMAIN file.data THEN file.data[key]
             ELSE default_settings[key]]
    ELSE default_settings
\* load_settings: the defaults, each known key replaced by the member of the
\* file with that key; the defaults alone when the file is absent or json.load
\* raises.
load_settings(file) ==
    IF file.exists /\ file.valid
    THEN [key \in SettingKeys |->
             IF key \in DOMAIN file.data THEN file.data[key]
             ELSE default_settings[key]]
    ELSE default_settings

SaveResults == {"ok", "open_fails", "dump_fails"}

\* save_settings: json.dump of user_settings into the file opened with "w".
\* open may raise (the file is left as it was) and json.dump may raise (the
\* file, truncated by open, holds a broken text); both are only printed.
save_settings(settings, file, outcome) ==
    CASE outcome = "ok" ->
           [exists |-> TRUE, valid |-> TRUE, data |-> settings]
      [] outcome = "open_fails" -> file
      [] OTHER -> [exists |-> TRUE, valid |-> FALSE, data |-> <<>>]

\* A setter (set_last_path, set_window_geometry, set_table_width,
\* set_jpeg_quality, set_orientation): user_settings[key] = value, then
\* save_settings.  st = [settings, file, saved], saved the history of the last
\* setter call and the number of setter calls made.
Setter(st, key, value, outcome) ==
    LET settings == [st.settings EXCEPT ![key] = value]
    IN [settings |-> settings,
        file     |-> save_settings(settings, st.file, outcome),
        saved    |-> [key |-> key, value |-> value, before |-> st.settings,
                      after |-> settings, ok |-> outcome = "ok",
                      calls |-> st.saved.calls + 1]]

\* The key of set_table_width and get_table_width.
TableWidthKey(orient) ==
    IF orient = "portrait" THEN "table_width_portrait"
    ELSE "table_width_landscape"

(* ------------------------------ PIL ----------------------------------- *)
\* Image.rotate(angle, expand=True) turns the image COUNTER-clockwise by angle.
PilRotate(cw, angle) == (cw + FullTurn - angle) % FullTurn

Stub == [src |-> 0, cw |-> 0]

(* -------------------------- ImageProcessor ---------------------------- *)
RECURSIVE LoadLoop(_, _, _)
\* load_images' loop: acc = [images, rotations, loaded] (and the history
\* turns); verified = the files Image.open / verify accept.
LoadLoop(file_paths, verified, acc) ==
    IF file_paths = <<>> THEN acc
    ELSE LET file_path == Head(file_paths)
             take == /\ IsSupported(file_path)
                     /\ file_path \in verified
                     /\ ~InSeq(file_path, acc.images)
             nxt == IF take
                    THEN [images    |-> Append(acc.images, file_path),
                          rotations |-> Append(acc.rotations, 0),
                          loaded    |-> Append(acc.loaded, file_path),
                          turns     |-> Append(acc.turns, 0)]
                    ELSE acc
         IN LoadLoop(Tail(file_paths), verified, nxt)

ThumbResults == {"ok", "open_fails", "late_fails"}

RECURSIVE ThumbLoop(_, _, _, _, _)
\* _create_thumbnails' loop from image k on; acc = [thumbnails, original_sizes].
\* outcome[k]: "ok"; "open_fails" (Image.open raises: placeholder thumbnail and
\* size); "late_fails" (rotate/thumbnail/paste raises after the size was
\* appended: placeholder thumbnail and a second, placeholder size).
ThumbLoop(imgs, rots, outcome, k, acc) ==
    IF k > Len(imgs) THEN acc
    ELSE LET real == [src |-> imgs[k],
                      cw  |-> IF rots[k] # 0 THEN PilRotate(0, rots[k]) ELSE 0]
             nxt ==
               CASE outcome[k] = "ok" ->
                      [thumbnails     |-> Append(acc.thumbnails, real),
                       original_sizes |-> Append(acc.original_sizes, imgs[k])]
                 [] outcome[k] = "open_fails" ->
                      [thumbnails     |-> Append(acc.thumbnails, Stub),
                       original_sizes |-> Append(acc.original_sizes, 0)]
                 [] OTHER ->
                      [thumbnails     |-> Append(acc.thumbnails, Stub),
                       original_sizes |->
                           Append(Append(acc.original_sizes, imgs[k]), 0)]
         IN ThumbLoop(imgs, rots, outcome, k + 1, nxt)

CreateThumbnails(imgs, rots, outcome) ==
    ThumbLoop(imgs, rots, outcome, 1,
              [thumbnails |-> <<>>, original_sizes |-> <<>>])

AllOk(n) == [k \in 1..n |-> "ok"]

\* del s[idx] for a 0-based idx.  Every list remove_images deletes from is at
\* least as long as images, so idx < Len(s) wherever it is used; the other
\* branch only keeps the operator total.
DelAt(s, idx) ==
    IF idx < Len(s)
    THEN SubSeq(s, 1, idx) \o SubSeq(s, idx + 2, Len(s))
    ELSE s

RECURSIVE SortedReverse(_)
\* sorted(indices, reverse=True)
SortedReverse(indices) ==
    IF indices = <<>> THEN <<>>
    ELSE LET k == CHOOSE j \in 1..Len(indices) :
                     \A l \in 1..Len(indices) : indices[l] <= indices[j]
         IN <<indices[k]>> \o
            SortedReverse(SubSeq(indices, 1, k - 1)
                          \o SubSeq(indices, k + 1, Len(indices)))

RECURSIVE RemoveLoop(_, _)
\* remove_images' loop over the sorted indices; st = the four lists (and the
\* history turns).
RemoveLoop(sorted, st) ==
    IF sorted = <<>> THEN st
    ELSE LET idx == Head(sorted)
             nxt == IF 0 <= idx /\ idx < Len(st.images)
                    THEN [images         |-> DelAt(st.images, idx),
                          thumbnails     |-> DelAt(st.thumbnails, idx),
                          rotations      |-> DelAt(st.rotations, idx),
                          original_sizes |-> DelAt(st.original_sizes, idx),
                          turns          |-> DelAt(st.turns, idx)]
                    ELSE st
         IN RemoveLoop(Tail(sorted), nxt)

RECURSIVE SetToSeq(_)
\* list(self.selected_indices)
SetToSeq(S) ==
    IF S = {} THEN <<>>
    ELSE LET x == CHOOSE y \in S : \A z \in S : y <= z
         IN <<x>> \o SetToSeq(S \ {x})

\* rotate_image's new angle.
Rotated(rotation) == (rotation + QuarterTurn) % FullTurn

(* ------------------------------ state --------------------------------- *)
VARIABLES
    \* ImageProcessor
    images, thumbnails, rotations, original_sizes,
    \* PhotoTableApp: widgets and fields
    btn_generate, btn_cancel, status, progress_bar,
    orientation, quality, table_width_mm,
    generation_cancelled, current_table_width,
    \* Tk's queue of root.after(0, ...) callbacks
    after_queue,
    \* WordGenerator
    cancel_requested, document,
    \* the Document objects, by the thread that created each
    docs,
    \* worker threads: position and local variables
    pc, loc,
    \* the file system: temporary files, the output file
    tmp_fs, out_file,
    \* number of worker threads started
    runs,
    \* history: turns[k] = the rotate_image calls (mod 4) made on image k
    \* since it was loaded
    turns,
    \* history: the number of changes the user made to the image list
    edits,
    \* AppConfig: user_settings and the settings file config_file
    user_settings, config_file,
    \* history: the last setter call of AppConfig
    last_save,
    \* history: the last call made on the ImageProcessor object itself
    last_call

ipVars == <<images, thumbnails, rotations, original_sizes, turns, edits,
           last_call>>
widgetVars == <<btn_generate, btn_cancel, status, progress_bar>>
settingVars == <<orientation, quality, table_width_mm>>
cfgVars == <<user_settings, config_file, last_save>>
wgVars == <<cancel_requested, document, docs>>
fsVars == <<tmp_fs, out_file>>
vars == <<images, thumbnails, rotations, original_sizes, btn_generate,
          btn_cancel, status, progress_bar, orientation, quality,
          table_width_mm, generation_cancelled, current_table_width,
          after_queue, cancel_requested, document, docs, pc, loc, tmp_fs,
          out_file, runs, turns, edits, user_settings, config_file,
          last_save, last_call>>

(* --------------------------- values ----------------------------------- *)
Status(msg, current, total) ==
    [msg |-> msg, current |-> current, total |-> total]

Ev(fn, msg, n, m) == [fn |-> fn, msg |-> msg, n |-> n, m |-> m]

EmptyCell == [pics |-> <<>>, captions |-> <<>>]
EmptyRow == [c \in 1..cols |-> EmptyCell]

NoDocument ==
    [created |-> FALSE, orientation |-> "portrait", rows |-> <<>>,
     breaks_after |-> {}]

NoImage == [src |-> 0, cw |-> 0, px |-> 0]
NoTmp == [thread |-> 0, idx |-> 0]
NoInputs ==
    [image_paths |-> <<>>, rotations |-> <<>>, orientation |-> "",
     quality |-> 0, table_width_cm |-> 0, skipped |-> {}]
\* The four lists of an ImageProcessor.
Lists(imgs, thumbs, rots, sizes) ==
    [images |-> imgs, thumbnails |-> thumbs, rotations |-> rots,
     original_sizes |-> sizes]
\* A call of an ImageProcessor method: its arguments (file_paths and the files
\* that pass verification; index; indices), the lists before it, what it
\* returned (loaded; returned).
Call(op, file_paths, verified, index, indices, before, loaded, returned) ==
    [op |-> op, file_paths |-> file_paths, verified |-> verified,
     index |-> index, indices |-> indices, before |-> before,
     loaded |-> loaded, returned |-> returned]
NoCall == Call("", <<>>, {}, 0, <<>>, Lists(<<>>, <<>>, <<>>, <<>>), <<>>, FALSE)
NoSave ==
    [key |-> "", value |-> 0, before |-> default_settings,
     after |-> default_settings, ok |-> FALSE, calls |-> 0]
NoFile ==
    [exists |-> FALSE, complete |-> FALSE, doc |-> NoDocument,
     inputs |-> NoInputs]

InitLoc ==
    [total_photos |-> 0, orientation |-> "portrait", quality |-> 0,
     table_width_cm |-> 0, image_paths |-> <<>>, total |-> 0,
     rotations |-> <<>>, in_range |-> FALSE, table |-> [doc |-> 0, base |-> 0],
     i |-> 0, img |-> NoImage, tmp_path |-> NoTmp, temp_files |-> <<>>,
     docx_bytes |-> NoDocument, ret |-> "pending",
     success |-> FALSE,
     \* history of this run
     progress_log |-> <<>>, rot_assigned |-> <<>>, rot_turns |-> <<>>,
     skipped |-> {}, created_tmp |-> {}, cancel_during |-> FALSE,
     wrote |-> FALSE, file_at_start |-> NoFile, cancel_at |-> 0 - 1]

(* ------------------------ initial states ------------------------------ *)
InitCommon ==
    /\ btn_generate = "normal"
    /\ btn_cancel = "disabled"
    /\ status = Status("ready", 0, 0)
    /\ progress_bar = [value |-> 0, maximum |-> 100]
    /\ generation_cancelled = FALSE
    /\ current_table_width = 0
    /\ after_queue = <<>>
    /\ cancel_requested = FALSE
    /\ document = 0
    /\ docs = [t \in Threads |-> NoDocument]
    /\ pc = [t \in Threads |-> "idle"]
    /\ loc = [t \in Threads |-> InitLoc]
    /\ tmp_fs = {}
    /\ out_file = NoFile
    /\ runs = 0
    /\ edits = 0
    /\ last_call = NoCall

\* The application after construction: no image loaded, default settings.
Init ==
    /\ InitCommon
    /\ images = <<>>
    /\ thumbnails = <<>>
    /\ rotations = <<>>
    /\ original_sizes = <<>>
    /\ turns = <<>>
    /\ config_file = NoSettingsFile
    /\ user_settings = load_settings(config_file)
    /\ last_save = NoSave
    /\ orientation = user_settings.orientation
    /\ quality = user_settings.jpeg_quality
    /\ table_width_mm = user_settings[TableWidthKey(orientation)]

(* ------------------- main thread: the image list ---------------------- *)
\* str(Path(file).parent): the directory of a file.
Parent(p) == p \div 100

\* PhotoTableApp.load_images -> ThumbnailGrid.add_images ->
\* ImageProcessor.load_images, for the files picked in the dialog, whose
\* directory is stored as last_path first.
LoadImages(files, verified, outcome, save) ==
    LET r == LoadLoop(files, verified,
                      [images |-> images, rotations |-> rotations,
                       loaded |-> <<>>, turns |-> turns])
        th == CreateThumbnails(r.images, r.rotations, outcome)
        cfg == Setter([settings |-> user_settings, file |-> config_file,
                       saved |-> last_save],
                      "last_path", Parent(files[1]), save)
    IN /\ files # <<>>
       /\ user_settings' = cfg.settings
       /\ config_file' = cfg.file
       /\ last_save' = cfg.saved
       /\ images' = r.images
       /\ rotations' = r.rotations
       /\ turns' = r.turns
       /\ edits' = edits + 1
       /\ IF r.loaded # <<>>
          THEN /\ thumbnails' = th.thumbnails
               /\ original_sizes' = th.original_sizes
               /\ status' = Status("ready", 0, 0)
          ELSE UNCHANGED <<thumbnails, original_sizes, status>>
       /\ UNCHANGED <<btn_generate, btn_cancel, progress_bar, settingVars,
                      generation_cancelled, current_table_width, after_queue,
                      wgVars, pc, loc, fsVars, runs, last_call>>

\* ThumbnailGrid._on_tile_rotate -> ImageProcessor.rotate_image(index).
RotateImage(index, outcome) ==
    /\ 0 <= index /\ index < Len(images)
    /\ LET rots == [rotations EXCEPT ![index + 1] = Rotated(@)]
           th == CreateThumbnails(images, rots, outcome)
       IN /\ rotations' = rots
          /\ thumbnails' = th.thumbnails
          /\ original_sizes' = th.original_sizes
    /\ turns' = [turns EXCEPT ![index + 1] = (@ + 1) % 4]
    /\ edits' = edits + 1
    /\ UNCHANGED <<images, widgetVars, settingVars, cfgVars,
                   generation_cancelled, current_table_width, after_queue,
                   wgVars, pc, loc, fsVars, runs, last_call>>

\* PhotoTableApp.delete_selected -> ThumbnailGrid.remove_selected ->
\* ImageProcessor.remove_images(list(selected_indices)).
RemoveSelected(selected_indices) ==
    /\ selected_indices # {}
    /\ LET st == RemoveLoop(SortedReverse(SetToSeq(selected_indices)),
                            [images |-> images, thumbnails |-> thumbnails,
                             rotations |-> rotations,
                             original_sizes |-> original_sizes,
                             turns |-> turns])
       IN /\ images' = st.images
          /\ thumbnails' = st.thumbnails
          /\ rotations' = st.rotations
          /\ original_sizes' = st.original_sizes
          /\ turns' = st.turns
    /\ edits' = edits + 1
    /\ UNCHANGED <<widgetVars, settingVars, cfgVars, generation_cancelled,
                   current_table_width, after_queue, wgVars, pc, loc, fsVars,
                   runs, last_call>>

\* PhotoTableApp.clear_all -> ThumbnailGrid.clear_all ->
\* ImageProcessor.clear_all.
ClearAll ==
    /\ Len(images) > 0
    /\ images' = <<>>
    /\ thumbnails' = <<>>
    /\ rotations' = <<>>
    /\ original_sizes' = <<>>
    /\ turns' = <<>>
    /\ edits' = edits + 1
    /\ UNCHANGED <<widgetVars, settingVars, cfgVars, generation_cancelled,
                   current_table_width, after_queue, wgVars, pc, loc, fsVars,
                   runs, last_call>>

(* ------------------- main thread: generation -------------------------- *)
\* Mutation: generate_document leaves the button enabled.
GenerateButtonLeftEnabled == "normal"
\* The state generate_document gives btn_generate before it starts the worker.
GenerateButtonWhileRunning == "disabled"

\* PhotoTableApp.generate_document, a file name chosen in the save dialog.
\* The button's command runs only while the button is enabled.  save = the
\* outcomes of the two save_settings calls.
GenerateDocument(save) ==
    /\ btn_generate = "normal"
    /\ runs < MaxRuns
    /\ Len(images) # 0
    /\ table_width_mm > 0 /\ table_width_mm <= MaxTableWidthMm
    /\ LET width == Setter([settings |-> user_settings, file |-> config_file,
                            saved |-> last_save],
                           TableWidthKey(orientation), table_width_mm, save[1])
           cfg == Setter(width, "jpeg_quality", quality, save[2])
       IN /\ user_settings' = cfg.settings
          /\ config_file' = cfg.file
          /\ last_save' = cfg.saved
    /\ btn_generate' = GenerateButtonWhileRunning
    /\ btn_cancel' = "normal"
    /\ generation_cancelled' = FALSE
    /\ current_table_width' = table_width_mm
    /\ runs' = runs + 1
    /\ pc' = [pc EXCEPT ![runs + 1] = "t_start"]
    /\ UNCHANGED <<ipVars, status, progress_bar, settingVars, after_queue,
                   wgVars, loc, fsVars>>

\* The positions of a worker from its start to the return of save_to_file.
InSaveToFile ==
    {"t_start", "g_begin", "g_snapshot", "g_rot", "g_rot_get", "g_table",
     "g_check", "g_process", "g_temp", "g_picture", "g_caption", "g_progress",
     "g_savedoc", "g_finally", "s_write"}

\* The positions of a worker inside the body of generate's loop, dealing with
\* image loc[t].i.
InLoop ==
    {"g_check", "g_process", "g_temp", "g_picture", "g_caption", "g_progress"}

\* PhotoTableApp.cancel_generation -> WordGenerator.cancel.  History:
\* cancel_at = the image the loop was at when the flag was first set in it.
CancelGeneration ==
    /\ btn_cancel = "normal"
    /\ generation_cancelled' = TRUE
    /\ cancel_requested' = TRUE
    /\ loc' = [t \in Threads |->
                 IF pc[t] \in InSaveToFile
                 THEN [loc[t] EXCEPT
                         !.cancel_during = TRUE,
                         !.cancel_at = IF pc[t] \in InLoop /\ @ < 0
                                       THEN loc[t].i ELSE @]
                 ELSE loc[t]]
    /\ UNCHANGED <<ipVars, widgetVars, settingVars, cfgVars, current_table_width,
                   after_queue, document, docs, pc, fsVars, runs>>

\* The main loop runs the oldest callback queued by root.after(0, ...).
ProcessAfter ==
    /\ after_queue # <<>>
    /\ LET e == Head(after_queue)
       IN /\ after_queue' = Tail(after_queue)
          /\ status' = IF e.fn = "set_status"
                       THEN Status(e.msg, e.n, e.m) ELSE status
          /\ progress_bar' =
                CASE e.fn = "progress_maximum" ->
                       [progress_bar EXCEPT !.maximum = e.n]
                  [] e.fn = "progress_value" ->
                       [progress_bar EXCEPT !.value = e.n]
                  [] OTHER -> progress_bar
          /\ btn_generate' = IF e.fn = "btn_generate" THEN e.msg
                             ELSE btn_generate
          /\ btn_cancel' = IF e.fn = "btn_cancel" THEN e.msg ELSE btn_cancel
    /\ UNCHANGED <<ipVars, settingVars, cfgVars, generation_cancelled,
                   current_table_width, wgVars, pc, loc, fsVars, runs>>

(* ------------------------- WordGenerator ------------------------------ *)
\* Mutation: create_document keeps the rows of the previous document.
DocumentKeepingRows(previous, orient) ==
    [created |-> TRUE, orientation |-> orient, rows |-> previous.rows,
     breaks_after |-> {}]
\* create_document: a new Document with the orientation set; no table yet.
NewDocument(previous, orient) ==
    [created |-> TRUE, orientation |-> orient, rows |-> <<>>,
     breaks_after |-> {}]

\* rows_needed = (total + cols - 1) // cols
RowsNeeded(total) == (total + cols - 1) \div cols

\* Mutation: every image goes to the first column of its row.
CellInFirstColumn(i) == [row |-> i \div cols, col |-> 0]
\* table.rows[i // cols].cells[i % cols], 0-based.
CellOf(i) == [row |-> i \div cols, col |-> i % cols]

\* Mutation: the callback gets the 0-based index.
ProgressArgsZeroBased(i, total) == <<i, total>>
\* progress_callback(i + 1, total)
ProgressArgs(i, total) == <<i + 1, total>>

EmptyCaption == [number |-> 0, filename |-> <<>>]

\* Document d is still the table of a live thread other than t.  A Document
\* nothing refers to any more is garbage: its slot goes back to NoDocument.
Referenced(d, t) ==
    \E u \in Threads \ {t} : pc[u] # "done" /\ loc[u].table.doc = d

Goto(t, label) == pc' = [pc EXCEPT ![t] = label]

\* _generate_thread up to the call of save_to_file.
GenerateThreadStart(t) ==
    /\ pc[t] = "t_start"
    /\ LET total_photos == Len(images)
       IN /\ loc' = [loc EXCEPT ![t].total_photos = total_photos]
          /\ after_queue' = after_queue \o
                <<Ev("set_status", "processing", 0, total_photos),
                  Ev("progress_maximum", "", total_photos, 0)>>
    /\ Goto(t, "g_begin")
    /\ UNCHANGED <<ipVars, widgetVars, settingVars, cfgVars, generation_cancelled,
                   current_table_width, wgVars, fsVars, runs>>

\* The call save_to_file(...) -> generate(...): the arguments are read, the
\* cancel flag is reset, create_document runs.
GenerateBegin(t) ==
    /\ pc[t] = "g_begin"
    /\ cancel_requested' = FALSE
    /\ LET args == [loc[t] EXCEPT !.orientation = orientation,
                                  !.quality = quality,
                                  !.table_width_cm = current_table_width,
                                  !.file_at_start = out_file]
           previous == IF document = 0 THEN NoDocument ELSE docs[document]
       IN \/ /\ docs' = [d \in Threads |->
                          IF d = t THEN NewDocument(previous, orientation)
                          ELSE IF d = document /\ ~Referenced(d, t)
                          THEN NoDocument
                          ELSE docs[d]]
             /\ document' = t
             /\ loc' = [loc EXCEPT ![t] = args]
             /\ Goto(t, "g_snapshot")
          \/ /\ UNCHANGED <<document, docs>>
             /\ loc' = [loc EXCEPT ![t] =
                          [args EXCEPT !.ret = "raise"]]
             /\ Goto(t, "t_except")
    /\ UNCHANGED <<ipVars, widgetVars, settingVars, cfgVars, generation_cancelled,
                   current_table_width, after_queue, fsVars, runs>>

\* image_paths = get_image_paths(); total = len(image_paths)
GenerateSnapshot(t) ==
    /\ pc[t] = "g_snapshot"
    /\ IF Len(images) = 0
       THEN /\ loc' = [loc EXCEPT ![t].ret = "raise"]
            /\ Goto(t, "t_except")
       ELSE /\ loc' = [loc EXCEPT ![t].image_paths = images,
                                  ![t].total = Len(images)]
            /\ Goto(t, "g_rot")
    /\ UNCHANGED <<ipVars, widgetVars, settingVars, cfgVars, generation_cancelled,
                   current_table_width, after_queue, wgVars, fsVars, runs>>

\* History: the angle the image list holds for file p; -1 when p is not in it.
AssignedRotation(p) ==
    IF InSeq(p, images)
    THEN rotations[CHOOSE j \in 1..Len(images) : images[j] = p]
    ELSE -1

\* rotations = [get_rotation(i) for i in range(total)]: the range check of one
\* get_rotation call.
GenerateRotationCheck(t) ==
    /\ pc[t] = "g_rot"
    /\ LET index == Len(loc[t].rotations)
       IN loc' = [loc EXCEPT ![t].in_range =
                                (0 <= index /\ index < Len(rotations))]
    /\ Goto(t, "g_rot_get")
    /\ UNCHANGED <<ipVars, widgetVars, settingVars, cfgVars, generation_cancelled,
                   current_table_width, after_queue, wgVars, fsVars, runs>>

\* ... and its return: self.rotations[index], or 0 out of range.  The list may
\* have shrunk since the check: IndexError.
GenerateRotationGet(t) ==
    /\ pc[t] = "g_rot_get"
    /\ LET index == Len(loc[t].rotations)
           read(value, n) ==
               [loc[t] EXCEPT !.rotations = Append(@, value),
                              !.rot_assigned =
                                  Append(@, AssignedRotation(
                                                loc[t].image_paths[index + 1])),
                              !.rot_turns = Append(@, n)]
           more == index + 1 < loc[t].total
       IN IF loc[t].in_range /\ ~(index < Len(rotations))
          THEN /\ loc' = [loc EXCEPT ![t].ret = "raise"]
               /\ Goto(t, "t_except")
          ELSE /\ loc' = [loc EXCEPT ![t] =
                            IF loc[t].in_range
                            THEN read(rotations[index + 1], turns[index + 1])
                            ELSE read(0, 0)]
               /\ Goto(t, IF more THEN "g_rot" ELSE "g_table")
    /\ UNCHANGED <<ipVars, widgetVars, settingVars, cfgVars, generation_cancelled,
                   current_table_width, after_queue, wgVars, fsVars, runs>>

\* The table: add_table(rows=0, cols=2), then rows_needed rows.
GenerateCreateTable(t) ==
    /\ pc[t] = "g_table"
    /\ \/ /\ docs' = [docs EXCEPT ![document].rows =
                        @ \o [r \in 1..RowsNeeded(loc[t].total) |-> EmptyRow]]
          /\ loc' = [loc EXCEPT ![t].table =
                                   [doc |-> document,
                                    base |-> Len(docs[document].rows)],
                                ![t].temp_files = <<>>,
                                ![t].i = 0]
          /\ Goto(t, "g_check")
       \/ /\ UNCHANGED docs
          /\ loc' = [loc EXCEPT ![t].ret = "raise"]
          /\ Goto(t, "t_except")
    /\ UNCHANGED <<ipVars, widgetVars, settingVars, cfgVars, generation_cancelled,
                   current_table_width, after_queue, cancel_requested,
                   document, fsVars, runs>>

\* if self.cancel_requested
CancelSeen(flag) == flag

\* The top of the loop body: the cancellation check.
GenerateCheckCancel(t) ==
    /\ pc[t] = "g_check"
    /\ IF CancelSeen(cancel_requested)
       THEN /\ loc' = [loc EXCEPT ![t].ret = "none"]
            /\ Goto(t, "g_finally")
       ELSE /\ UNCHANGED loc
            /\ Goto(t, "g_process")
    /\ UNCHANGED <<ipVars, widgetVars, settingVars, cfgVars, generation_cancelled,
                   current_table_width, after_queue, wgVars, fsVars, runs>>

\* process_for_word(img_path, target_width, quality, rotations[i])
process_for_word(image_path, target_width, rotation) ==
    [src |-> image_path,
     cw  |-> IF rotation # 0 THEN PilRotate(0, rotation) ELSE 0,
     px  |-> target_width]

\* An exception inside generate's try block: the finally clause runs next.
Raise(t) ==
    /\ loc' = [loc EXCEPT ![t].ret = "raise"]
    /\ Goto(t, "g_finally")

\* Mutation: get_image_paths hands out the list itself, and the loop reads
\* the entries the list holds when it gets to them.
ImagePathOfList(image_paths, list, i) ==
    IF i < Len(list) THEN list[i + 1] ELSE image_paths[i + 1]
\* img_path of iteration i: image_paths is the copy get_image_paths made, so
\* the entry is the one of the snapshot whatever self.images (list) holds now.
ImagePath(image_paths, list, i) == image_paths[i + 1]

GenerateProcess(t) ==
    /\ pc[t] = "g_process"
    /\ LET l == loc[t]
       IN \/ /\ loc' = [loc EXCEPT ![t].img =
                          process_for_word(ImagePath(l.image_paths, images,
                                                     l.i),
                                           get_image_width(l.orientation),
                                           l.rotations[l.i + 1])]
             /\ Goto(t, "g_temp")
          \/ Raise(t)
    /\ UNCHANGED <<ipVars, widgetVars, settingVars, cfgVars, generation_cancelled,
                   current_table_width, after_queue, wgVars, fsVars, runs>>

\* NamedTemporaryFile(suffix=".jpg", delete=False), img.save into it,
\* temp_files.append.
GenerateSaveTemp(t) ==
    /\ pc[t] = "g_temp"
    /\ LET tmp == [thread |-> t, idx |-> loc[t].i]
       IN \/ /\ tmp_fs' = tmp_fs \cup {tmp}
             /\ loc' = [loc EXCEPT ![t].tmp_path = tmp,
                                   ![t].temp_files = Append(@, tmp),
                                   ![t].created_tmp = @ \cup {tmp}]
             /\ Goto(t, "g_picture")
          \/ \* img.save raises: the file exists and is in no list
             /\ tmp_fs' = tmp_fs \cup {tmp}
             /\ loc' = [loc EXCEPT ![t].ret = "raise",
                                   ![t].created_tmp = @ \cup {tmp}]
             /\ Goto(t, "g_finally")
          \/ \* NamedTemporaryFile raises: no file
             /\ UNCHANGED tmp_fs
             /\ Raise(t)
    /\ UNCHANGED <<ipVars, widgetVars, settingVars, cfgVars, generation_cancelled,
                   current_table_width, after_queue, wgVars, out_file, runs>>

\* The cell of image i gets the picture of its temporary file.
GenerateAddPicture(t) ==
    /\ pc[t] = "g_picture"
    /\ LET l == loc[t]
           at == CellOf(l.i)
           picture == [src |-> l.img.src, cw |-> l.img.cw, px |-> l.img.px,
                       quality |-> l.quality,
                       width |-> l.table_width_cm \div cols]
       IN \/ /\ docs' = [docs EXCEPT
                           ![l.table.doc].rows[l.table.base + at.row + 1]
                                              [at.col + 1].pics =
                               Append(@, picture)]
             /\ UNCHANGED loc
             /\ Goto(t, "g_caption")
          \/ /\ UNCHANGED docs
             /\ Raise(t)
    /\ UNCHANGED <<ipVars, widgetVars, settingVars, cfgVars, generation_cancelled,
                   current_table_width, after_queue, cancel_requested,
                   document, fsVars, runs>>

\* The caption paragraph; a failure (text lxml refuses) is logged and the
\* loop goes on, the paragraph left empty.
GenerateAddCaption(t) ==
    /\ pc[t] = "g_caption"
    /\ LET l == loc[t]
           at == CellOf(l.i)
           caption_text == get_caption_text(CaptionNumber(l.i),
                                            Stem(l.image_paths[l.i + 1]))
           ok == XmlCompatible(caption_text.filename)
       IN /\ docs' = [docs EXCEPT
                        ![l.table.doc].rows[l.table.base + at.row + 1]
                                           [at.col + 1].captions =
                            Append(@, IF ok THEN caption_text
                                      ELSE EmptyCaption)]
          /\ loc' = [loc EXCEPT ![t].skipped =
                                   IF ok THEN @ ELSE @ \cup {l.i}]
    /\ Goto(t, "g_progress")
    /\ UNCHANGED <<ipVars, widgetVars, settingVars, cfgVars, generation_cancelled,
                   current_table_width, after_queue, cancel_requested,
                   document, fsVars, runs>>

\* progress_callback(i + 1, total): _generate_thread's callback queues the
\* progress bar's value and the status text; then the next iteration.
GenerateProgress(t) ==
    /\ pc[t] = "g_progress"
    /\ LET l == loc[t]
           args == ProgressArgs(l.i, l.total)
       IN /\ after_queue' = after_queue \o
                <<Ev("progress_value", "", args[1], 0),
                  Ev("set_status", "processing", args[1], args[2])>>
          /\ loc' = [loc EXCEPT ![t].progress_log = Append(@, args),
                                ![t].i = l.i + 1]
          /\ Goto(t, IF l.i + 1 < l.total THEN "g_check" ELSE "g_savedoc")
    /\ UNCHANGED <<ipVars, widgetVars, settingVars, cfgVars, generation_cancelled,
                   current_table_width, wgVars, fsVars, runs>>

\* self.document.save(docx_bytes)
GenerateSaveDocument(t) ==
    /\ pc[t] = "g_savedoc"
    /\ \/ /\ loc' = [loc EXCEPT ![t].docx_bytes = docs[document],
                                ![t].ret = "doc"]
          /\ Goto(t, "g_finally")
       \/ Raise(t)
    /\ UNCHANGED <<ipVars, widgetVars, settingVars, cfgVars, generation_cancelled,
                   current_table_width, after_queue, wgVars, fsVars, runs>>

\* finally: os.unlink of every path in temp_files.
GenerateFinally(t) ==
    /\ pc[t] = "g_finally"
    /\ tmp_fs' = tmp_fs \ SeqToSet(loc[t].temp_files)
    /\ Goto(t, IF loc[t].ret = "raise" THEN "t_except" ELSE "s_write")
    /\ UNCHANGED <<ipVars, widgetVars, settingVars, cfgVars, generation_cancelled,
                   current_table_width, after_queue, wgVars, loc, out_file,
                   runs>>

InputsOf(l) ==
    [image_paths |-> l.image_paths, rotations |-> l.rotations,
     orientation |-> l.orientation, quality |-> l.quality,
     table_width_cm |-> l.table_width_cm, skipped |-> l.skipped]

\* Mutation: save_to_file writes whatever generate returned.
AnyResult(ret) == TRUE
\* `if docx_bytes`: generate returned the document, not None.
HasBytes(ret) == ret = "doc"

\* save_to_file after generate returned: the file is written when there are
\* bytes; True or False is returned.
SaveToFileWrite(t) ==
    /\ pc[t] = "s_write"
    /\ IF HasBytes(loc[t].ret)
       THEN \/ /\ out_file' = [exists |-> TRUE, complete |-> TRUE,
                               doc |-> loc[t].docx_bytes,
                               inputs |-> InputsOf(loc[t])]
               /\ loc' = [loc EXCEPT ![t].success = TRUE, ![t].wrote = TRUE]
               /\ Goto(t, "t_result")
            \/ \* open(filepath, "wb") raises
               /\ UNCHANGED out_file
               /\ loc' = [loc EXCEPT ![t].ret = "raise"]
               /\ Goto(t, "t_except")
            \/ \* f.write raises: the file is there, cut short
               /\ out_file' = [exists |-> TRUE, complete |-> FALSE,
                               doc |-> NoDocument, inputs |-> NoInputs]
               /\ loc' = [loc EXCEPT ![t].ret = "raise"]
               /\ Goto(t, "t_except")
       ELSE /\ UNCHANGED out_file
            /\ loc' = [loc EXCEPT ![t].success = FALSE]
            /\ Goto(t, "t_result")
    /\ UNCHANGED <<ipVars, widgetVars, settingVars, cfgVars, generation_cancelled,
                   current_table_width, after_queue, wgVars, tmp_fs, runs>>

\* _generate_thread after save_to_file returned.
GenerateThreadResult(t) ==
    /\ pc[t] = "t_result"
    /\ after_queue' = after_queue \o
          (IF loc[t].success /\ ~generation_cancelled
           THEN <<Ev("set_status", "success", 0, 0),
                  Ev("ask_open_folder", "", 0, 0)>>
           ELSE IF generation_cancelled
           THEN <<Ev("set_status", "cancelled", 0, 0),
                  Ev("showinfo", "", 0, 0)>>
           ELSE <<>>)
    /\ Goto(t, "t_fin1")
    /\ UNCHANGED <<ipVars, widgetVars, settingVars, cfgVars, generation_cancelled,
                   current_table_width, wgVars, loc, fsVars, runs>>

\* _generate_thread's except clause.
GenerateThreadExcept(t) ==
    /\ pc[t] = "t_except"
    /\ after_queue' = after_queue \o
          <<Ev("set_status", "error", 0, 0), Ev("showerror", "", 0, 0)>>
    /\ Goto(t, "t_fin1")
    /\ UNCHANGED <<ipVars, widgetVars, settingVars, cfgVars, generation_cancelled,
                   current_table_width, wgVars, loc, fsVars, runs>>

\* _generate_thread's finally clause, one root.after call at a time; the
\* thread ends after the third.
GenerateThreadFinally1(t) ==
    /\ pc[t] = "t_fin1"
    /\ after_queue' = Append(after_queue, Ev("btn_generate", "normal", 0, 0))
    /\ Goto(t, "t_fin2")
    /\ UNCHANGED <<ipVars, widgetVars, settingVars, cfgVars, generation_cancelled,
                   current_table_width, wgVars, loc, fsVars, runs>>

GenerateThreadFinally2(t) ==
    /\ pc[t] = "t_fin2"
    /\ after_queue' = Append(after_queue, Ev("btn_cancel", "disabled", 0, 0))
    /\ Goto(t, "t_fin3")
    /\ UNCHANGED <<ipVars, widgetVars, settingVars, cfgVars, generation_cancelled,
                   current_table_width, wgVars, loc, fsVars, runs>>

GenerateThreadFinally3(t) ==
    /\ pc[t] = "t_fin3"
    /\ after_queue' = Append(after_queue, Ev("progress_value", "", 0, 0))
    /\ loc' = [loc EXCEPT ![t] = InitLoc]
    /\ docs' = [d \in Threads |->
                  IF d # document /\ ~Referenced(d, t) THEN NoDocument
                  ELSE docs[d]]
    /\ Goto(t, "done")
    /\ UNCHANGED <<ipVars, widgetVars, settingVars, cfgVars, generation_cancelled,
                   current_table_width, cancel_requested, document, fsVars,
                   runs>>

(* ------------------------- specifications ----------------------------- *)
Worker(t) ==
    \/ GenerateThreadStart(t)
    \/ GenerateBegin(t)
    \/ GenerateSnapshot(t)
    \/ GenerateRotationCheck(t)
    \/ GenerateRotationGet(t)
    \/ GenerateCreateTable(t)
    \/ GenerateCheckCancel(t)
    \/ GenerateProcess(t)
    \/ GenerateSaveTemp(t)
    \/ GenerateAddPicture(t)
    \/ GenerateAddCaption(t)
    \/ GenerateProgress(t)
    \/ GenerateSaveDocument(t)
    \/ GenerateFinally(t)
    \/ SaveToFileWrite(t)
    \/ GenerateThreadResult(t)
    \/ GenerateThreadExcept(t)
    \/ GenerateThreadFinally1(t)
    \/ GenerateThreadFinally2(t)
    \/ GenerateThreadFinally3(t)

\* Both save_settings calls of generate_document succeed.
SavesOk == <<"ok", "ok">>

\* The i-th image file (every third file is no image file).
GenPath(i) == i + ((i - 1) \div 2)

\* The settings SpecGen starts from: orientation, table width, JPEG quality.
GenSettings ==
    {[orientation |-> "portrait", table_width_mm |-> 160, quality |-> 85],
     [orientation |-> "landscape", table_width_mm |-> 250, quality |-> 50]}

\* The application with n images loaded and turned, nothing generated yet:
\* the image files from the first-th on, image k turned seed + k - 1 times.
Loaded(n, first, seed) ==
    /\ images = [k \in 1..n |-> GenPath(first + k - 1)]
    /\ rotations = [k \in 1..n |-> QuarterTurn * ((seed + k - 1) % 4)]
    /\ turns = [k \in 1..n |-> (seed + k - 1) % 4]
    /\ thumbnails = CreateThumbnails(images, rotations, AllOk(n)).thumbnails
    /\ original_sizes =
          CreateThumbnails(images, rotations, AllOk(n)).original_sizes

InitGen ==
    /\ InitCommon
    /\ \E n \in 1..GenImages, first \in {1, 4}, seed \in 0..3 :
          Loaded(n, first, seed)
    /\ \E s \in GenSettings :
          /\ orientation = s.orientation
          /\ table_width_mm = s.table_width_mm
          /\ quality = s.quality
          /\ config_file =
                [exists |-> TRUE, valid |-> TRUE,
                 data |-> [default_settings EXCEPT
                             !.orientation = s.orientation,
                             ![TableWidthKey(s.orientation)] =
                                 s.table_width_mm,
                             !.jpeg_quality = s.quality]]
    /\ user_settings = load_settings(config_file)
    /\ last_save = NoSave

\* One generation, which the user may cancel; the image list is left alone.
NextGen ==
    \/ (runs = 0 /\ GenerateDocument(SavesOk))
    \/ CancelGeneration
    \/ ProcessAfter
    \/ \E t \in Threads : Worker(t)

SpecGen == InitGen /\ [][NextGen]_vars

InitRuns ==
    /\ InitCommon
    /\ \E n \in 1..MaxImages : Loaded(n, 1, 1)
    /\ config_file = NoSettingsFile
    /\ user_settings = load_settings(config_file)
    /\ last_save = NoSave
    /\ orientation = user_settings.orientation
    /\ quality = user_settings.jpeg_quality
    /\ table_width_mm = user_settings[TableWidthKey(orientation)]

\* Up to MaxRuns generations one after the other, the image list left alone.
NextRuns ==
    \/ GenerateDocument(SavesOk)
    \/ CancelGeneration
    \/ ProcessAfter
    \/ \E t \in Threads : Worker(t)

SpecRuns == InitRuns /\ [][NextRuns]_vars

\* The load dialog's selections: up to MaxBatch of the files.
Batches == UNION {[1..n -> Paths] : n \in 1..MaxBatch}

\* The user loads, turns, removes and clears images at any time, also while
\* the one generation runs; every image file stays readable.  The callbacks
\* the worker queues wait in after_queue: they touch widgets only.
NextEdit ==
    \/ \E files \in Batches :
          /\ edits < MaxEdits
          /\ Len(images) + Len(files) <= MaxImages
          /\ \E verified \in SUBSET SeqToSet(files) :
                LoadImages(files, verified, AllOk(MaxImages), "ok")
    \/ \E index \in 0..(MaxImages - 1) :
          /\ edits < MaxEdits
          /\ RotateImage(index, AllOk(MaxImages))
    \/ \E sel \in SUBSET (0..(MaxImages - 1)) :
          /\ edits < MaxEdits
          /\ \A x \in sel : x < Len(images)
          /\ RemoveSelected(sel)
    \/ (edits < MaxEdits /\ ClearAll)
    \/ (runs = 0 /\ GenerateDocument(SavesOk))
    \/ \E t \in Threads : Worker(t)

SpecEdit == Init /\ [][NextEdit]_vars

(* --------------------------- properties ------------------------------- *)
\* Thread t has created its table.
HasTable(t) == loc[t].table.doc # 0

\* The rows of the table thread t created.
TableRows(t) ==
    LET d == docs[loc[t].table.doc]
    IN SubSeq(d.rows, loc[t].table.base + 1, Len(d.rows))

\* The number of images thread t has inserted into cells so far.
Inserted(t) ==
    loc[t].i + (IF pc[t] \in {"g_caption", "g_progress"} THEN 1 ELSE 0)

\* The number of images thread t has dealt with the caption of so far.
Captioned(t) == loc[t].i + (IF pc[t] = "g_progress" THEN 1 ELSE 0)

\* generate of thread t has returned a document to save_to_file.
ReturnedDocument(t) == pc[t] = "s_write" /\ loc[t].ret = "doc"

\* generate of thread t has finished: returned or raised.
AfterGenerate ==
    {"s_write", "t_result", "t_except", "t_fin1", "t_fin2", "t_fin3"}

\* C1: the table generate builds for N >= 1 images has 2 columns and
\* ceil(N/2) rows; at every moment the image at 0-based position k of the
\* list, once inserted, is the one picture of the cell in row k div 2, column
\* k mod 2, and the cells of the images not inserted yet hold no picture; the
\* document generate returns holds all N images this way.
C1_TwoColumnGrid ==
    \A t \in Threads :
        HasTable(t) =>
            LET rows == TableRows(t)
                N == loc[t].total
            IN /\ N >= 1
               /\ 2 * Len(rows) >= N
               /\ 2 * (Len(rows) - 1) < N
               /\ \A r \in 1..Len(rows) : DOMAIN rows[r] = 1..2
               /\ \A r \in 1..Len(rows), c \in 1..2 :
                     LET k == 2 * (r - 1) + (c - 1)
                     IN IF k < Inserted(t)
                        THEN /\ Len(rows[r][c].pics) = 1
                             /\ rows[r][c].pics[1].src =
                                   loc[t].image_paths[k + 1]
                        ELSE rows[r][c].pics = <<>>
               /\ ReturnedDocument(t) =>
                     /\ Inserted(t) = N
                     /\ loc[t].docx_bytes.rows = rows

\* A document of five images (three rows, the last cell empty) was returned.
C1_Witness ==
    \E t \in Threads :
        /\ ReturnedDocument(t)
        /\ loc[t].total = 5
        /\ Len(loc[t].docx_bytes.rows) = 3

\* C2: a run the user cancelled at some moment between the start of the
\* worker thread and the return of save_to_file never writes the output file.
C2_CancelledRunWritesNothing ==
    \A t \in Threads : ~(loc[t].cancel_during /\ loc[t].wrote)

\* A cancellation the loop saw: generate returned None and nothing was written.
C2_Witness ==
    \E t \in Threads :
        /\ pc[t] = "t_result"
        /\ loc[t].cancel_during
        /\ loc[t].ret = "none"
        /\ ~loc[t].wrote

\* C3: the calls of progress_callback made so far in a run over N images are
\* (1,N), (2,N), ... in this order, the call with value k made only after
\* image k was inserted into its cell; a run that returns a document has made
\* exactly N calls.
C3_ProgressCalls ==
    \A t \in Threads :
        LET log == loc[t].progress_log
            N == loc[t].total
        IN /\ Len(log) <= N
           /\ \A k \in 1..Len(log) :
                 /\ log[k] = <<k, N>>
                 /\ k <= Inserted(t)
                 /\ HasTable(t)
                 /\ TableRows(t)[((k - 1) \div 2) + 1][((k - 1) % 2) + 1].pics
                       # <<>>
           /\ ReturnedDocument(t) => Len(log) = N

\* A run over three images returned a document after three calls.
C3_Witness ==
    \E t \in Threads :
        /\ ReturnedDocument(t)
        /\ loc[t].total = 3
        /\ Len(loc[t].progress_log) = 3

\* C4: once generate has finished (a document, None, or an exception), no
\* temporary file created in that run is left in the file system.
C4_TempFilesDeleted ==
    \A t \in Threads :
        pc[t] \in AfterGenerate => loc[t].created_tmp \cap tmp_fs = {}

\* generate raised after creating temporary files and its finally clause
\* deleted every one of them.
C4_Witness ==
    \E t \in Threads :
        /\ pc[t] = "t_except"
        /\ Cardinality(loc[t].created_tmp) = 2
        /\ loc[t].created_tmp \cap tmp_fs = {}

\* The text get_caption_text is to give for number k and file p.
CaptionFor(k, p) ==
    [number   |-> k,
     filename |-> IF Len(Stem(p)) > 35
                  THEN SubSeq(Stem(p), 1, 32) \o <<46, 46, 46>>
                  ELSE Stem(p)]

\* The caption paragraphs of the cell of the image at 1-based position k.
CaptionsAt(t, k) ==
    TableRows(t)[((k - 1) \div 2) + 1][((k - 1) % 2) + 1].captions

\* C6 (as stated): every image at 1-based position k whose caption step is over
\* carries the caption of number k and its file's stem, so a returned document
\* has the caption numbers 1..N in cell order.
C6_EveryImageCaptioned ==
    \A t \in Threads :
        HasTable(t) =>
            \A k \in 1..Captioned(t) :
                CaptionsAt(t, k) = <<CaptionFor(k, loc[t].image_paths[k])>>

\* C6 (amended): every image at 1-based position k whose caption step is over
\* has one caption paragraph; it holds the text of number k and the stem (cut
\* to 32 characters and "..." when longer than 35) unless python-docx refused
\* the text, and then it is empty; the cells of the other images hold no
\* caption.  The numbers present are increasing in cell order, with a gap at
\* every refused caption.
C6_CaptionsNumberedByPosition ==
    \A t \in Threads :
        HasTable(t) =>
            \A k \in 1..loc[t].total :
                IF k <= Captioned(t)
                THEN IF (k - 1) \in loc[t].skipped
                     THEN CaptionsAt(t, k) = <<EmptyCaption>>
                     ELSE CaptionsAt(t, k) =
                              <<CaptionFor(k, loc[t].image_paths[k])>>
                ELSE CaptionsAt(t, k) = <<>>

\* A returned document of five images, every one captioned, one of them with
\* a stem longer than 35 characters.
C6_Witness ==
    \E t \in Threads :
        /\ ReturnedDocument(t)
        /\ loc[t].total = 5
        /\ loc[t].skipped = {}
        /\ \E k \in 1..5 : Len(Stem(loc[t].image_paths[k])) > 35

\* C7: the document generate returns has a page boundary after every
\* get_rows_per_page(orientation) rows of the table.
C7_PageBoundaries ==
    \A t \in Threads :
        ReturnedDocument(t) =>
            LET d == loc[t].docx_bytes
            IN d.breaks_after =
                  {r \in 1..(Len(d.rows) - 1) :
                       r % get_rows_per_page(d.orientation) = 0}

\* A landscape document of three rows was returned.
C7_Witness ==
    \E t \in Threads :
        /\ ReturnedDocument(t)
        /\ loc[t].docx_bytes.orientation = "landscape"
        /\ Len(loc[t].docx_bytes.rows) = 3

\* The picture in the cell of the image at 1-based position k.
PictureAt(t, k) ==
    TableRows(t)[((k - 1) \div 2) + 1][((k - 1) % 2) + 1].pics[1]

\* C5: every image placed in the document was turned by the angle the image
\* list held for that same image when generate read its rotation (an image
\* the user had removed by then has no such angle), whatever the user did to
\* the list meanwhile.
C5_RotationOfSameImage ==
    \A t \in Threads :
        HasTable(t) =>
            \A k \in 1..Inserted(t) :
                loc[t].rot_assigned[k] # -1 =>
                    /\ loc[t].rotations[k] = loc[t].rot_assigned[k]
                    /\ PictureAt(t, k).cw =
                          process_for_word(loc[t].image_paths[k], 0,
                                           loc[t].rot_assigned[k]).cw

\* A document of two images was returned, the second one turned by the angle
\* the user gave it.
C5_Witness ==
    \E t \in Threads :
        /\ ReturnedDocument(t)
        /\ loc[t].total = 2
        /\ loc[t].rot_assigned[2] = 90
        /\ loc[t].rotations[2] = 90

\* The worker threads that were started and have not ended.
Alive == {t \in Threads : pc[t] \notin {"idle", "done"}}

\* The positions of a worker before its finally clause queues the re-enabling
\* of the generate button.
InRun == InSaveToFile \cup {"t_result", "t_except", "t_fin1"}

\* C8 (as stated): at most one worker thread is alive, and the generate button
\* is disabled as long as one is.
C8_OneWorkerAlive ==
    /\ Cardinality(Alive) <= 1
    /\ Alive # {} => btn_generate = "disabled"

\* C8 (amended): at most one worker thread is between its start and the first
\* statement of _generate_thread's finally clause, and the generate button is
\* disabled as long as one is; a worker that has queued the re-enabling of the
\* button may still be alive when the next one starts.
C8_OneWorkerInRun ==
    /\ Cardinality({t \in Threads : pc[t] \in InRun}) <= 1
    /\ (\E t \in Threads : pc[t] \in InRun) => btn_generate = "disabled"

\* The second worker runs while the first is still in its finally clause.
C8_Witness ==
    /\ pc[2] \in InRun
    /\ pc[1] \in {"t_fin2", "t_fin3"}

\* C9: a run that returns a document for the inputs (image list, rotations,
\* orientation, quality, table width; no caption refused) of the run that
\* wrote the output file returns the very document in that file: the same
\* cell, turn, width and caption for every image.
C9_SameInputsSameLayout ==
    \A t \in Threads :
        ( /\ ReturnedDocument(t)
          /\ loc[t].skipped = {}
          /\ out_file.complete
          /\ out_file.inputs = InputsOf(loc[t]) ) =>
            out_file.doc = loc[t].docx_bytes

\* The second run returns a document of two images for the inputs of the
\* first, whose document is in the output file.
C9_Witness ==
    /\ ReturnedDocument(2)
    /\ loc[2].total = 2
    /\ out_file.complete
    /\ out_file.inputs = InputsOf(loc[2])

\* C10: after k calls of rotate_image on an image its thumbnail shows the file
\* turned clockwise by 90*k mod 360 degrees, and so does the picture of an
\* image whose rotation generate read after k calls.
C10_ClockwiseQuarterTurns ==
    /\ \A k \in 1..Len(thumbnails) :
          thumbnails[k] # Stub => thumbnails[k].cw = (90 * turns[k]) % 360
    /\ \A t \in Threads :
          HasTable(t) =>
              \A k \in 1..Inserted(t) :
                  PictureAt(t, k).cw = (90 * loc[t].rot_turns[k]) % 360

\* An image turned once: its thumbnail and its picture in a returned document.
C10_Witness ==
    \E t \in Threads :
        /\ ReturnedDocument(t)
        /\ loc[t].rot_turns[1] = 1
        /\ turns = <<1>>
        /\ thumbnails[1].cw = PictureAt(t, 1).cw

(* ------------------------- AppConfig alone ---------------------------- *)
\* The directories, window geometries, table widths and JPEG qualities the
\* setters are called with.
Dirs == 0..NumDirs
Geometries == 0..NumGeometries
Widths == {DefaultTableWidthMm, OtherWidthMm}
Qualities == {DefaultQuality, OtherQuality}
Orientations == {"portrait", "landscape"}

\* A settings file written by another version of the program: two of the
\* known keys and a member load_settings does not know.
ForeignFile ==
    [exists |-> TRUE, valid |-> TRUE,
     data |-> [last_path |-> 1, jpeg_quality |-> OtherQuality,
               theme |-> "dark"]]
BrokenFile == [exists |-> TRUE, valid |-> FALSE, data |-> <<>>]
ConfigFiles == {NoSettingsFile, BrokenFile, ForeignFile}

\* A setter called on the AppConfig object.
CallSetter(key, value, outcome) ==
    LET cfg == Setter([settings |-> user_settings, file |-> config_file,
                       saved |-> last_save], key, value, outcome)
    IN /\ last_save.calls < MaxSaves
       /\ user_settings' = cfg.settings
       /\ config_file' = cfg.file
       /\ last_save' = cfg.saved
       /\ UNCHANGED <<ipVars, widgetVars, settingVars, generation_cancelled,
                      current_table_width, after_queue, wgVars, pc, loc,
                      fsVars, runs>>

set_last_path(path, outcome) == CallSetter("last_path", path, outcome)
set_window_geometry(geometry, outcome) ==
    CallSetter("window_geometry", geometry, outcome)
set_table_width(orient, width, outcome) ==
    CallSetter(TableWidthKey(orient), width, outcome)
set_jpeg_quality(q, outcome) == CallSetter("jpeg_quality", q, outcome)
set_orientation(orient, outcome) == CallSetter("orientation", orient, outcome)

\* AppConfig.__post_init__ of the next start of the program, and
\* load_settings_to_ui.
PostInit ==
    /\ user_settings' = load_settings(config_file)
    /\ orientation' = user_settings'.orientation
    /\ table_width_mm' = user_settings'[TableWidthKey(orientation')]
    /\ quality' = user_settings'.jpeg_quality
    /\ UNCHANGED <<ipVars, widgetVars, config_file, last_save,
                   generation_cancelled, current_table_width, after_queue,
                   wgVars, pc, loc, fsVars, runs>>

InitConfig ==
    /\ InitCommon
    /\ images = <<>>
    /\ thumbnails = <<>>
    /\ rotations = <<>>
    /\ original_sizes = <<>>
    /\ turns = <<>>
    /\ config_file \in ConfigFiles
    /\ user_settings = load_settings(config_file)
    /\ last_save = NoSave
    /\ orientation = user_settings.orientation
    /\ quality = user_settings.jpeg_quality
    /\ table_width_mm = user_settings[TableWidthKey(orientation)]

NextConfig ==
    \/ \E path \in Dirs, outcome \in SaveResults :
          set_last_path(path, outcome)
    \/ \E geometry \in Geometries, outcome \in SaveResults :
          set_window_geometry(geometry, outcome)
    \/ \E orient \in Orientations, width \in Widths,
          outcome \in SaveResults :
          set_table_width(orient, width, outcome)
    \/ \E q \in Qualities, outcome \in SaveResults :
          set_jpeg_quality(q, outcome)
    \/ \E orient \in Orientations, outcome \in SaveResults :
          set_orientation(orient, outcome)
    \/ PostInit

SpecConfig == InitConfig /\ [][NextConfig]_vars

(* ------------------------------- C11 ---------------------------------- *)
\* What a load_settings call made now returns.
Reloaded == load_settings(config_file)

\* C11: when the last setter call stored value under key and its
\* save_settings succeeded, load_settings returns value for key and, for
\* every other key, the value user_settings held before the call; whatever
\* the file holds, load_settings returns the six known keys and no other.
C11_SettingsPersist ==
    /\ DOMAIN Reloaded = SettingKeys
    /\ DOMAIN user_settings = SettingKeys
    /\ last_save.ok =>
          /\ Reloaded[last_save.key] = last_save.value
          /\ \A key \in SettingKeys \ {last_save.key} :
                Reloaded[key] = last_save.before[key]

\* A setter replaced a value that came from a file with an unknown member, the
\* save succeeded, and the memory of the restarted program holds it.
C11_Witness ==
    /\ last_save.ok
    /\ last_save.key = "window_geometry"
    /\ last_save.value # last_save.before.window_geometry
    /\ last_save.before.jpeg_quality = OtherQuality
    /\ last_save.before.last_path = 1
    /\ user_settings = Reloaded
    /\ user_settings.window_geometry = last_save.value
    /\ user_settings.table_width_landscape = OtherWidthMm
(* ----------------------- ImageProcessor alone ------------------------- *)
\* The lists as they are now.
Now == Lists(images, thumbnails, rotations, original_sizes)

\* The rest of the application does not move during a call on the object;
\* the call is counted.
AppUnchanged ==
    /\ edits' = edits + 1
    /\ UNCHANGED <<widgetVars, settingVars, cfgVars, generation_cancelled,
                   current_table_width, after_queue, wgVars, pc, loc, fsVars,
                   runs>>

\* ImageProcessor.load_images(file_paths); outcome[k] = how the thumbnail of
\* image k comes out when the thumbnails are rebuilt (no outcome when they are
\* not rebuilt).
CallLoadImages(file_paths, verified, outcome) ==
    LET r == LoadLoop(file_paths, verified,
                      [images |-> images, rotations |-> rotations,
                       loaded |-> <<>>, turns |-> turns])
        th == CreateThumbnails(r.images, r.rotations, outcome)
    IN /\ Len(outcome) = (IF r.loaded # <<>> THEN Len(r.images) ELSE 0)
       /\ images' = r.images
       /\ rotations' = r.rotations
       /\ turns' = r.turns
       /\ IF r.loaded # <<>>
          THEN /\ thumbnails' = th.thumbnails
               /\ original_sizes' = th.original_sizes
          ELSE UNCHANGED <<thumbnails, original_sizes>>
       /\ last_call' = Call("load_images", file_paths, verified, 0, <<>>, Now,
                            r.loaded, FALSE)
       /\ AppUnchanged

\* ImageProcessor.rotate_image(index)
CallRotateImage(index, outcome) ==
    /\ Len(outcome) =
          (IF 0 <= index /\ index < Len(images) THEN Len(images) ELSE 0)
    /\ IF 0 <= index /\ index < Len(images)
       THEN LET rots == [rotations EXCEPT ![index + 1] = Rotated(@)]
                th == CreateThumbnails(images, rots, outcome)
            IN /\ rotations' = rots
               /\ thumbnails' = th.thumbnails
               /\ original_sizes' = th.original_sizes
               /\ turns' = [turns EXCEPT ![index + 1] = (@ + 1) % 4]
       ELSE UNCHANGED <<rotations, thumbnails, original_sizes, turns>>
    /\ last_call' = Call("rotate_image", <<>>, {}, index, <<>>, Now, <<>>,
                         0 <= index /\ index < Len(images))
    /\ UNCHANGED images
    /\ AppUnchanged

\* ImageProcessor.remove_images(indices)
CallRemoveImages(indices) ==
    /\ LET st == RemoveLoop(SortedReverse(indices),
                            [images |-> images, thumbnails |-> thumbnails,
                             rotations |-> rotations,
                             original_sizes |-> original_sizes,
                             turns |-> turns])
       IN /\ images' = st.images
          /\ thumbnails' = st.thumbnails
          /\ rotations' = st.rotations
          /\ original_sizes' = st.original_sizes
          /\ turns' = st.turns
    /\ last_call' = Call("remove_images", <<>>, {}, 0, indices, Now, <<>>,
                         FALSE)
    /\ AppUnchanged

\* ImageProcessor.clear_all()
CallClearAll ==
    /\ images' = <<>>
    /\ thumbnails' = <<>>
    /\ rotations' = <<>>
    /\ original_sizes' = <<>>
    /\ turns' = <<>>
    /\ last_call' = Call("clear_all", <<>>, {}, 0, <<>>, Now, <<>>, FALSE)
    /\ AppUnchanged

\* The indices callers pass: valid positions, one below and one above them.
Indices == (0 - 1)..MaxImages
IndexLists == UNION {[1..n -> Indices] : n \in 0..MaxIndices}
\* How the thumbnails of a list of up to MaxImages images come out.
Outcomes == UNION {[1..n -> ThumbResults] : n \in 0..MaxImages}

\* Up to MaxCalls calls are made on the object, with any arguments.
NextLists ==
    \/ \E file_paths \in Batches \cup {<<>>} :
          \E verified \in SUBSET SeqToSet(file_paths), outcome \in Outcomes :
             /\ edits < MaxCalls
             /\ CallLoadImages(file_paths, verified, outcome)
    \/ \E index \in Indices, outcome \in Outcomes :
          /\ edits < MaxCalls
          /\ CallRotateImage(index, outcome)
    \/ \E indices \in IndexLists :
          /\ edits < MaxCalls
          /\ CallRemoveImages(indices)
    \/ (edits < MaxCalls /\ CallClearAll)

SpecLists == Init /\ [][NextLists]_vars

(* ------------------------------- C12 ---------------------------------- *)
\* The image a thumbnail or a size was made from is image, or it is the
\* placeholder.
BelongsTo(src, image) == src = image \/ src = 0

\* C12: the four lists have the same length, and thumbnail i, rotation i and
\* size i are those of image i.
C12_ListsAligned ==
    /\ Len(thumbnails) = Len(images)
    /\ Len(rotations) = Len(images)
    /\ Len(original_sizes) = Len(images)
    /\ \A k \in 1..Len(images) :
          /\ BelongsTo(thumbnails[k].src, images[k])
          /\ BelongsTo(original_sizes[k], images[k])

\* Rebuilding the thumbnails met a failure after the size was recorded, and a
\* later remove_images took an entry out of every list.
C12_Witness ==
    /\ last_call.op = "remove_images"
    /\ Len(last_call.before.original_sizes) > Len(last_call.before.images)
    /\ Len(images) < Len(last_call.before.images)
    /\ Len(images) > 0
    /\ Len(original_sizes) > Len(images)
(* ------------------------------- C13 ---------------------------------- *)
\* Thread t's call of generate raised (it returned neither None nor bytes).
GenerationRaised(t) ==
    pc[t] = "t_except" /\ loc[t].docx_bytes = NoDocument

\* C13: the output file stays as it was when save_to_file was entered until
\* generate has returned the complete document; save_to_file returns True
\* exactly when it wrote the file; when generate returned None (cancelled)
\* it returns False, when generate raised it raises, and in both cases the
\* file is as it was.
C13_SaveToFile ==
    \A t \in Threads :
       /\ pc[t] \in InSaveToFile \ {"t_start", "g_begin"} =>
             out_file = loc[t].file_at_start
       /\ pc[t] = "t_result" /\ loc[t].wrote =>
             /\ loc[t].ret = "doc"
             /\ out_file.complete
             /\ out_file.doc = loc[t].docx_bytes
             /\ \A k \in 0..(loc[t].total - 1) :
                   Len(out_file.doc.rows[CellOf(k).row + 1]
                                        [CellOf(k).col + 1].pics) = 1
       /\ pc[t] = "t_result" =>
             /\ loc[t].success <=> loc[t].wrote
             /\ ~loc[t].success => out_file = loc[t].file_at_start
             /\ loc[t].ret = "none" => ~loc[t].success
       /\ GenerationRaised(t) =>
             /\ out_file = loc[t].file_at_start
             /\ ~loc[t].wrote

\* The second run was cancelled and returned False while the file of the first
\* run is still there, unchanged.
C13_Witness ==
    \E t \in Threads :
       /\ pc[t] = "t_result"
       /\ loc[t].ret = "none"
       /\ ~loc[t].success
       /\ out_file.exists
       /\ out_file.complete
       /\ out_file = loc[t].file_at_start
(* ------------------------------- C14 ---------------------------------- *)
\* The run is over and every callback it queued has run: status is final.
RunOver ==
    /\ runs > 0
    /\ \A t \in Threads : pc[t] \in {"idle", "done"}
    /\ after_queue = <<>>

\* C14: the status 'Генерация отменена' is shown only when no file was
\* written, and the final status of a run is the success message exactly when
\* the file was written.
C14_StatusMatchesFile ==
    /\ status.msg = "cancelled" => ~out_file.exists
    /\ RunOver => (status.msg = "success" <=> out_file.complete)

\* A run that was not cancelled ended with the file written and the success
\* message shown.
C14_Witness ==
    /\ RunOver
    /\ status.msg = "success"
    /\ out_file.complete
    /\ ~generation_cancelled
(* ------------------------------- C15 ---------------------------------- *)
\* cancel_requested was set while thread t's loop was at image cancel_at.
CancelledInLoop(t) == loc[t].cancel_at >= 0

\* After a cancellation set while the loop was at image i, no image with an
\* index above i is processed and no progress value above i + 1 is reported.
NothingBeyond(t) ==
    /\ pc[t] \in InLoop \ {"g_check"} => loc[t].i <= loc[t].cancel_at
    /\ loc[t].i <= loc[t].cancel_at + 1
    /\ \A k \in 1..Len(loc[t].progress_log) :
          loc[t].progress_log[k][1] <= loc[t].cancel_at + 1

\* C15: after cancel_requested was set while the loop was at image i, no
\* image with an index above i is processed, no progress value above i + 1 is
\* reported, and generate does not return a document.
C15_CancelStopsGenerate ==
    \A t \in Threads :
       CancelledInLoop(t) => NothingBeyond(t) /\ loc[t].ret # "doc"

\* The flag was set while the first of several images was being processed:
\* its progress was reported and generate returned None at the next check.
C15_Witness ==
    \E t \in Threads :
       /\ pc[t] = "s_write"
       /\ loc[t].cancel_at = 0
       /\ loc[t].total > 2
       /\ loc[t].progress_log = <<ProgressArgs(0, loc[t].total)>>
       /\ loc[t].ret = "none"
(* ------------------------------- C16 ---------------------------------- *)
\* The cell of the image at 1-based position k.
CellAt(t, k) == TableRows(t)[CellOf(k - 1).row + 1][CellOf(k - 1).col + 1]

\* C16: the pictures of the document are the files of the list generate
\* copied at its start (image_paths), in that order, one per cell and none
\* besides, whatever load_images, remove_images and clear_all did to the list
\* while the run went on.
C16_DocumentHoldsSnapshot ==
    \A t \in Threads :
       HasTable(t) =>
          /\ loc[t].total = Len(loc[t].image_paths)
          /\ \A k \in 1..Inserted(t) :
                /\ Len(CellAt(t, k).pics) = 1
                /\ CellAt(t, k).pics[1].src = loc[t].image_paths[k]
          /\ \A k \in (Inserted(t) + 1)..(cols * Len(TableRows(t))) :
                CellAt(t, k).pics = <<>>
          /\ ReturnedDocument(t) => Inserted(t) = loc[t].total

\* A document of two images was returned although the user had meanwhile
\* removed one of them and put another file first.
C16_Witness ==
    \E t \in Threads :
       /\ ReturnedDocument(t)
       /\ loc[t].total = 2
       /\ Len(images) = 2
       /\ images[1] # loc[t].image_paths[1]
       /\ images[2] # loc[t].image_paths[2]
(* ------------------------------- C17 ---------------------------------- *)
\* The distinct valid positions among indices, for a list of n entries.
ValidPositions(indices, n) == SeqToSet(indices) \cap (0..(n - 1))

RECURSIVE Without(_, _)
\* List s without the entries at the (0-based) positions, the rest in order.
Without(s, positions) ==
    IF s = <<>> THEN <<>>
    ELSE Without(SubSeq(s, 1, Len(s) - 1), positions)
         \o (IF (Len(s) - 1) \in positions THEN <<>> ELSE <<s[Len(s)]>>)

\* C17: remove_images(indices) deletes exactly the entries at the distinct
\* valid positions named by indices (an index out of range is ignored, an
\* index given twice removes one entry); the remaining paths and their
\* rotations keep their order.
C17_RemovesDistinctValid ==
    last_call.op = "remove_images" =>
       LET positions == ValidPositions(last_call.indices,
                                       Len(last_call.before.images))
       IN /\ images = Without(last_call.before.images, positions)
          /\ rotations = Without(last_call.before.rotations, positions)

\* remove_images([2, 0]) on two images, the second one turned: index 2 was
\* ignored and the second image is left with its rotation.
C17_Witness ==
    /\ last_call.op = "remove_images"
    /\ last_call.indices = <<2, 0>>
    /\ Len(last_call.before.images) = 2
    /\ last_call.before.rotations[2] = QuarterTurn
    /\ images = <<last_call.before.images[2]>>
    /\ rotations = <<QuarterTurn>>
(* ------------------------------- C18 ---------------------------------- *)
RECURSIVE FirstOccurrences(_)
\* s without the repetitions of an element, first occurrences in order.
FirstOccurrences(s) ==
    IF s = <<>> THEN <<>>
    ELSE LET front == FirstOccurrences(SubSeq(s, 1, Len(s) - 1))
         IN IF InSeq(s[Len(s)], front) THEN front
            ELSE Append(front, s[Len(s)])

\* The paths of file_paths a load_images call has to append to a list holding
\* the paths of list: supported suffix in any case, verified, not in the list,
\* each once, in the order given.
ToAppend(file_paths, verified, list) ==
    LET Wanted(file_path) ==
            /\ Lower(Suffix(file_path)) \in supported_formats
            /\ file_path \in verified
            /\ ~InSeq(file_path, list)
    IN FirstOccurrences(SelectSeq(file_paths, Wanted))

C19_NoPathTwice ==
    \A j, k \in 1..Len(images) : images[j] = images[k] => j = k

\* load_images was given a new file twice in one call, the list holding
\* another file already; the new file is in the list once.
C19_Witness ==
    /\ last_call.op = "load_images"
    /\ Len(last_call.file_paths) = 2
    /\ last_call.file_paths[1] = last_call.file_paths[2]
    /\ Len(last_call.before.images) = 1
    /\ last_call.loaded = <<last_call.file_paths[1]>>
    /\ Len(images) = 2
====
